---- MODULE Spec2Model ----
(***************************************************************************)
(* A model of the cushion CouchDB client: the Connection's request         *)
(* dispatcher (nodecouch.js) and the Database handle (database.js).        *)
(*                                                                         *)
(* JavaScript values are records [k, lit, fields, items]: k is the kind    *)
(* (typeof, with null, array and error told apart), lit the literal of a   *)
(* scalar (or the name of a function / error), fields the properties of an *)
(* object (<<name, kind, literal>> triples; a nested array or object is    *)
(* held by its JSON text), items the elements of an array of strings.      *)
(***************************************************************************)
EXTENDS Integers, Sequences, FiniteSets, TLC

\* ------------------------------------------------------------ bounds
\* API invocations made in one behaviour.
MaxReq == 1
\* Requests made on one Connection and in flight together.
MaxConcurrent == 2
\* Length of the database list a server answers on _all_dbs.
MaxNames == 3

\* ------------------------------------------------------------ JS values
\* no properties
NoFields == <<>>

Val(k, lit) == [k |-> k, lit |-> lit, fields |-> NoFields, items |-> <<>>]
Undefined == Val("undefined", "")
Null == Val("null", "")
True == Val("boolean", "true")
False == Val("boolean", "false")
Str(s) == Val("string", s)
Num(s) == Val("number", s)
Fn(name) == Val("function", name)
Err(name) == Val("error", name)
\* an object literal; f is the sequence of its properties, each a
\* <<name, kind, literal>> triple, in the order they were set
Obj(f) == [k |-> "object", lit |-> "", fields |-> f, items |-> <<>>]
\* an array of strings
Arr(items) == [k |-> "array", lit |-> "", fields |-> NoFields, items |-> items]
\* the triple that holds value v as property name of an object
Prop(name, v) == <<name, v.k, v.lit>>

\* typeof v
TypeOf(v) ==
  IF v.k \in {"null", "object", "array", "error"} THEN "object" ELSE v.k

\* ToBoolean(v), as in `(v) ? a : b` and `a || b`
Truthy(v) ==
  CASE v.k \in {"undefined", "null"} -> FALSE
    [] v.k = "boolean" -> v.lit = "true"
    [] v.k = "number" -> v.lit \notin {"0", "NaN"}
    [] v.k = "string" -> v.lit # ""
    [] OTHER -> TRUE

\* a || b
Or(a, b) == IF Truthy(a) THEN a ELSE b

\* v.name cannot be read: v is null or undefined (a TypeError is thrown)
GetThrows(v) == v.k \in {"undefined", "null"}
\* v.name, for a v that can be read
Get(v, name) ==
  IF \E i \in DOMAIN v.fields : v.fields[i][1] = name
  THEN LET p == v.fields[CHOOSE i \in DOMAIN v.fields : v.fields[i][1] = name]
       IN Val(p[2], p[3])
  ELSE Undefined

\* '' + v, for the scalars the handles concatenate
StringOf(v) ==
  CASE v.k \in {"string", "number", "boolean"} -> v.lit
    [] v.k = "null" -> "null"
    [] v.k = "undefined" -> "undefined"
    [] OTHER -> "[object]"

\* ------------------------------------------------------------ strings
\* The characters of the strings whose characters the code looks at
\* (the method of a request, the names of databases).
Chars(s) ==
  CASE s = "GET" -> <<"G", "E", "T">>
    [] s = "get" -> <<"g", "e", "t">>
    [] s = "PUT" -> <<"P", "U", "T">>
    [] s = "Post" -> <<"P", "o", "s", "t">>
    [] s = "POST" -> <<"P", "O", "S", "T">>
    [] s = "DELETE" -> <<"D", "E", "L", "E", "T", "E">>
    [] s = "head" -> <<"h", "e", "a", "d">>
    [] s = "COPY" -> <<"C", "O", "P", "Y">>
    [] s = "PATCH" -> <<"P", "A", "T", "C", "H">>
    [] s = "OUTPUT" -> <<"O", "U", "T", "P", "U", "T">>
    [] s = "GETX" -> <<"G", "E", "T", "X">>
    [] s = "a" -> <<"a">>
    [] s = "_users" -> <<"_", "u", "s", "e", "r", "s">>
    [] s = "_replicator" ->
         <<"_", "r", "e", "p", "l", "i", "c", "a", "t", "o", "r">>
    [] OTHER -> <<>>

Lower == <<"a", "c", "d", "e", "g", "h", "l", "o", "p", "s", "t", "u", "x", "y">>
Upper == <<"A", "C", "D", "E", "G", "H", "L", "O", "P", "S", "T", "U", "X", "Y">>
\* the /i flag: one character, case folded
Fold(c) ==
  IF \E i \in DOMAIN Lower : Lower[i] = c
  THEN Upper[CHOOSE i \in DOMAIN Lower : Lower[i] = c]
  ELSE c
FoldAll(cs) == [i \in DOMAIN cs |-> Fold(cs[i])]

\* word occurs in cs at position p (1-based)
OccursAt(cs, word, p) ==
  /\ p >= 1
  /\ p + Len(word) - 1 <= Len(cs)
  /\ SubSeq(cs, p, p + Len(word) - 1) = word

\* s.substr(0, 1)
Substr01(s) == IF Len(Chars(s)) >= 1 THEN Chars(s)[1] ELSE ""

\* ------------------------------------------------------------ JSON
Quote(s) == "\"" \o s \o "\""

\* the JSON text of the value of property p
FieldText(p) ==
  CASE p[2] = "string" -> Quote(p[3])
    [] p[2] \in {"number", "boolean"} -> p[3]
    [] p[2] = "null" -> "null"
    [] OTHER -> p[3]

RECURSIVE JoinFields(_, _)
\* "name":value of the properties fields[i..], comma separated
JoinFields(fields, i) ==
  IF i > Len(fields) THEN ""
  ELSE (IF i = 1 THEN "" ELSE ",")
       \o Quote(fields[i][1]) \o ":" \o FieldText(fields[i])
       \o JoinFields(fields, i + 1)

RECURSIVE JoinItems(_, _)
JoinItems(items, i) ==
  IF i > Len(items) THEN ""
  ELSE (IF i = 1 THEN "" ELSE ",") \o Quote(items[i]) \o JoinItems(items, i + 1)

\* JSON.stringify(v), for the values that have a JSON text
JSONStringify(v) ==
  CASE v.k = "string" -> Quote(v.lit)
    [] v.k \in {"number", "boolean"} -> v.lit
    [] v.k = "null" -> "null"
    [] v.k = "array" ->
         IF v.lit # "" THEN v.lit ELSE "[" \o JoinItems(v.items, 1) \o "]"
    [] v.k = "object" ->
         IF v.lit # "" THEN v.lit ELSE "{" \o JoinFields(v.fields, 1) \o "}"
    [] OTHER -> "{}"

\* ------------------------------------------------------------ query strings
\* querystring's stringifyPrimitive
QSPrimitive(p) ==
  IF p[2] \in {"string", "number", "boolean"} THEN p[3] ELSE ""

RECURSIVE JoinQuery(_, _)
JoinQuery(fields, i) ==
  IF i > Len(fields) THEN ""
  ELSE (IF i = 1 THEN "" ELSE "&")
       \o fields[i][1] \o "=" \o QSPrimitive(fields[i])
       \o JoinQuery(fields, i + 1)

\* querystring.stringify(v, '&', '='): the pairs of an object, '' for anything else
QueryString(v) ==
  IF v.k = "object" THEN JoinQuery(v.fields, 1) ELSE ""

\* ------------------------------------------------------------ JSON.parse
NameSet == {"a", "_users"}
RECURSIVE SeqsUpTo(_, _)
\* the sequences over S of length at most n
SeqsUpTo(S, n) ==
  IF n = 0 THEN {<<>>}
  ELSE LET shorter == SeqsUpTo(S, n - 1)
       IN shorter \cup {Append(q, x) : q \in {t \in shorter : Len(t) = n - 1}, x \in S}

Rows == Val("array", "[{\"id\":\"d1\",\"value\":{\"rev\":\"1-a\"}}]")
ViewResult ==
  Obj(<<Prop("total_rows", Num("2")), Prop("offset", Num("0")), Prop("rows", Rows)>>)
\* the JSON documents a server answers with
JsonDocs ==
  {Null, True, Num("5"), Str("s"),
   Obj(<<Prop("ok", True)>>),
   Obj(<<Prop("ok", False)>>),
   Obj(<<Prop("error", Str("not_found"))>>),
   Obj(<<Prop("error", Str("conflict"))>>),
   Obj(<<Prop("error", False)>>),
   Obj(<<Prop("error", Str("")), Prop("ok", True)>>),
   Obj(<<Prop("purged", Val("object", "{\"d1\":[\"1-a\"]}"))>>),
   ViewResult}
  \cup {Arr(q) : q \in SeqsUpTo(NameSet, MaxNames)}

\* JSON.parse(text) returns a value (it throws a SyntaxError otherwise)
CanParse(text) == \E v \in JsonDocs : JSONStringify(v) = text
\* JSON.parse(text), for a text it accepts
JSONParse(text) == CHOOSE v \in JsonDocs : JSONStringify(v) = text

\* ------------------------------------------------------------ the method regex
\* /^GET|PUT|POST|DELETE|HEAD|COPY?/i: the alternatives, in order. ^ belongs to
\* the first alternative only and ? to the last character of the last one.
methodMatch ==
  <<[anchored |-> TRUE, word |-> <<"G", "E", "T">>, optional |-> <<>>],
    [anchored |-> FALSE, word |-> <<"P", "U", "T">>, optional |-> <<>>],
    [anchored |-> FALSE, word |-> <<"P", "O", "S", "T">>, optional |-> <<>>],
    [anchored |-> FALSE, word |-> <<"D", "E", "L", "E", "T", "E">>, optional |-> <<>>],
    [anchored |-> FALSE, word |-> <<"H", "E", "A", "D">>, optional |-> <<>>],
    [anchored |-> FALSE, word |-> <<"C", "O", "P">>, optional |-> <<"Y">>]>>

\* s.match(methodMatch) !== null
Match(s) ==
  LET cs == FoldAll(Chars(s))
  IN \E a \in DOMAIN methodMatch : \E p \in 1..(Len(cs) + 1) :
       /\ methodMatch[a].anchored => p = 1
       /\ \/ OccursAt(cs, methodMatch[a].word \o methodMatch[a].optional, p)
          \/ OccursAt(cs, methodMatch[a].word, p)

\* ------------------------------------------------------------ state
VARIABLES
  conn,   \* the Connection: its _options
  reqs    \* the API invocations made so far, each with the request it issued
vars == <<conn, reqs>>

\* config.js, the defaults of a Connection
defaultOptions ==
  [host |-> Str("127.0.0.1"), port |-> Str("5984"),
   username |-> Str(""), password |-> Str("")]

\* new Connection(host, port, username, password)
nodecouch(host, port, username, password) ==
  [host |-> Or(host, defaultOptions.host),
   port |-> Or(port, defaultOptions.port),
   username |-> Or(username, defaultOptions.username),
   password |-> Or(password, defaultOptions.password)]

\* the methods of Connection.prototype
Prototype == {"database", "getVersion", "listDatabases", "_request", "request"}

\* nothing was thrown
NoThrow == Val("nothing", "")
TypeError == Err("TypeError")
SyntaxError == Err("SyntaxError")

\* the name of the Database handle, database('foo')
DbName == "foo"

\* the functions a caller passes as continuation: one returns, one throws
Callbacks == {Fn("cb"), Fn("cbThrows")}
\* what a continuation throws when it is called
Raises(f) == IF f.lit = "cbThrows" THEN Err("cbError") ELSE NoThrow

\* ------------------------------------------------------------ Connection.request
\* the method of the outbound request
ResolveMethod(method) ==
  IF TypeOf(method) = "string" /\ Match(method.lit) THEN method.lit ELSE "GET"

\* the options handed to http.request
RequestOptions(properties) ==
  [host |-> conn.host,
   port |-> conn.port,
   method |-> ResolveMethod(properties.method),
   path |-> "/" \o StringOf(Or(properties.path, Str(""))),
   auth |-> StringOf(conn.username) \o ":" \o StringOf(conn.password),
   headers |-> Or(properties.headers, Null)]

\* the body is written when typeof(properties.body) === 'object'
WritesBody(body) == TypeOf(body) = "object"

\* what request() does to the outbound stream: write the body, then end
RequestStream(properties) ==
  (IF WritesBody(properties.body)
   THEN <<[op |-> "write", data |-> JSONStringify(properties.body)]>>
   ELSE <<>>)
  \o <<[op |-> "end", data |-> ""]>>

\* a request description
Properties(method, path, body, callback) ==
  [method |-> method, path |-> path, headers |-> Undefined, body |-> body,
   callback |-> callback]
\* the function put in properties.callback: fn names its body, cb is the
\* caller's continuation it closes over, env the other variable it closes over
Closure(fn, cb, env) == [fn |-> fn, cb |-> cb, env |-> env]

\* the record of an API invocation that went through Connection.request
request(api, args, properties) ==
  [api |-> api, args |-> args, properties |-> properties,
   options |-> RequestOptions(properties),
   stream |-> RequestStream(properties),
   phase |-> "sent", status |-> 0, chunks |-> <<>>, rest |-> <<>>,
   content |-> "", failure |-> NoThrow, log |-> <<>>, uncaught |-> NoThrow]

\* ------------------------------------------------------------ continuations
\* what the body of a properties.callback does before it calls the caller's
\* continuation: it throws, or it has the arguments of the call
Ret(args) == [throws |-> NoThrow, args |-> args]
Thrown(e) == [throws |-> e, args |-> <<>>]

\* a description whose callback is the caller's own function
PassThrough(error, response) == Ret(<<error, response>>)

\* Array.prototype.splice(i, 1), i counted from 0
Splice(items, i) == SubSeq(items, 1, i) \o SubSeq(items, i + 2, Len(items))
\* the index after a splice, --i forgotten
AfterSpliceKept(i) == i
\* the index after a splice: --i
AfterSplice(i) == i - 1
RECURSIVE FilterLoop(_, _)
\* for (i = 0; response[i]; ++i) { if ('_' first) { splice; --i } }, from index i
FilterLoop(items, i) ==
  IF i >= Len(items) \/ items[i + 1] = "" THEN items
  ELSE IF Substr01(items[i + 1]) = "_"
       THEN FilterLoop(Splice(items, i), AfterSplice(i) + 1)
       ELSE FilterLoop(items, i + 1)

\* the callback of listDatabases; noCouchRelated is its second argument
ListDatabasesCallback(noCouchRelated, error, response) ==
  IF error = Null /\ response # Null /\ noCouchRelated = True
  THEN CASE response.k = "array" ->
              Ret(<<error, Arr(FilterLoop(response.items, 0))>>)
         [] response.k = "string" /\ Substr01(response.lit) = "_" ->
              Thrown(TypeError)
         [] response.k = "undefined" -> Thrown(TypeError)
         [] OTHER -> Ret(<<error, response>>)
  ELSE Ret(<<error, response>>)

\* {total: response.total_rows, offset: response.offset}
Info(response) ==
  Obj(<<Prop("total", Get(response, "total_rows")),
        Prop("offset", Get(response, "offset"))>>)

\* the id -> rev object allDocuments builds from the rows
Documents(rows) ==
  IF rows.k = "array" /\ rows.lit # ""
  THEN Val("object", "{\"d1\":\"1-a\"}")
  ELSE Val("object", "")

AllDocumentsCallback(error, response) ==
  IF error = Null
  THEN IF GetThrows(response) \/ GetThrows(Get(response, "rows"))
       THEN Thrown(TypeError)
       ELSE Ret(<<error, Info(response), Documents(Get(response, "rows"))>>)
  ELSE Ret(<<error, Undefined, Val("object", "")>>)

\* cleanup and compact
StartedCallback(error, response) ==
  Ret(<<error, IF Truthy(response) THEN True ELSE Null>>)

CreateCallback(error, response) ==
  IF error = Null
  THEN IF GetThrows(response) THEN Thrown(TypeError)
       ELSE Ret(<<error, IF Get(response, "ok") = True THEN True ELSE response>>)
  ELSE Ret(<<error, response>>)

DestroyCallback(error, response) ==
  Ret(<<error,
        IF Truthy(response) /\ Get(response, "ok") = True THEN True ELSE response>>)

EnsureFullCommitCallback(error, response) ==
  IF error = Null
  THEN IF GetThrows(response) THEN Thrown(TypeError)
       ELSE Ret(<<error, IF Get(response, "ok") = True THEN True ELSE False>>)
  ELSE Ret(<<error, False>>)

\* the string exists() compares error.error with
NotFound == "not_found"
\* exists without the reset of error to null
ExistsCallbackErrorKept(error) ==
  LET notFound == Truthy(error) /\ Get(error, "error") = Str(NotFound)
      exists == IF notFound THEN False ELSE True
  IN Ret(<<error, IF error = Null THEN exists ELSE Null>>)
ExistsCallback(error) ==
  LET notFound == Truthy(error) /\ Get(error, "error") = Str(NotFound)
      error2 == IF notFound THEN Null ELSE error
      exists == IF notFound THEN False ELSE True
  IN Ret(<<error2, IF error2 = Null THEN exists ELSE Null>>)

PurgeCallback(error, response) ==
  IF Truthy(error) THEN Ret(<<error, Null>>)
  ELSE IF GetThrows(response) THEN Thrown(TypeError)
  ELSE Ret(<<error, Get(response, "purged")>>)

RevisionLimitCallback(limit, error, response) ==
  IF Truthy(error) THEN Ret(<<error, Null>>)
  ELSE IF limit = Null THEN Ret(<<Null, response>>)
  ELSE Ret(<<Null, True>>)

\* temporaryView (and the callback written in view)
ViewCallback(error, response) ==
  IF error = Null
  THEN IF GetThrows(response) THEN Thrown(TypeError)
       ELSE Ret(<<error, Info(response), Get(response, "rows")>>)
  ELSE Ret(<<error, Null, Null>>)

\* the body of closure c run on (error, response)
Shape(c, error, response) ==
  CASE c.fn = "listDatabases" -> ListDatabasesCallback(c.env, error, response)
    [] c.fn = "allDocuments" -> AllDocumentsCallback(error, response)
    [] c.fn \in {"cleanup", "compact"} -> StartedCallback(error, response)
    [] c.fn = "create" -> CreateCallback(error, response)
    [] c.fn = "destroy" -> DestroyCallback(error, response)
    [] c.fn = "ensureFullCommit" -> EnsureFullCommitCallback(error, response)
    [] c.fn = "exists" -> ExistsCallback(error)
    [] c.fn = "purge" -> PurgeCallback(error, response)
    [] c.fn = "revisionLimit" -> RevisionLimitCallback(c.env, error, response)
    [] c.fn \in {"temporaryView", "view"} -> ViewCallback(error, response)
    [] OTHER -> PassThrough(error, response)

\* properties.callback(error, response): what was delivered, whether a
\* continuation was called, which one and with what, and what the call threw
Deliver(c, error, response) ==
  LET s == Shape(c, error, response)
  IN IF s.throws # NoThrow
     THEN [error |-> error, response |-> response, called |-> FALSE,
           callee |-> Undefined, args |-> <<>>, threw |-> s.throws]
     ELSE IF c.cb.k # "function"
     THEN [error |-> error, response |-> response, called |-> FALSE,
           callee |-> c.cb, args |-> <<>>, threw |-> TypeError]
     ELSE [error |-> error, response |-> response, called |-> TRUE,
           callee |-> c.cb, args |-> s.args, threw |-> Raises(c.cb)]

\* ------------------------------------------------------------ Connection._request
\* catch(error) { callback(error, null) }, after the deliveries in before
Catch(c, error, before) ==
  LET d == Deliver(c, error, Null)
  IN [log |-> before \o <<d>>, uncaught |-> d.threw]

\* the error field handed on in place of the body
ErrorArgumentField(content) ==
  IF Truthy(Get(content, "error")) THEN Get(content, "error") ELSE Null
\* the first argument of the callback: (content.error) ? content : null
ErrorArgument(content) ==
  IF Truthy(Get(content, "error")) THEN content ELSE Null
\* the second argument of the callback: (!content.error) ? content : null
ResponseArgument(content) ==
  IF ~Truthy(Get(content, "error")) THEN content ELSE Null

\* the 'end' handler run on the buffered text
OnEnd(c, text) ==
  IF ~CanParse(text) THEN Catch(c, SyntaxError, <<>>)
  ELSE LET content == JSONParse(text)
       IN IF GetThrows(content) THEN Catch(c, TypeError, <<>>)
          ELSE LET d == Deliver(c, ErrorArgument(content), ResponseArgument(content))
               IN IF d.threw = NoThrow
                  THEN [log |-> <<d>>, uncaught |-> NoThrow]
                  ELSE Catch(c, d.threw, <<d>>)

\* ------------------------------------------------------------ the server
Answer(status, chunks) == [status |-> status, chunks |-> chunks]

\* answers to a request made with Connection.request directly
WireAnswers ==
  {Answer(200, <<"{\"ok\":true}">>),
   Answer(404, <<"{\"error\":", "\"not_found\"}">>),
   Answer(200, <<"{\"error\":\"conflict\"}">>),
   Answer(200, <<"{\"error\":false}">>),
   Answer(200, <<"nu", "ll">>),
   Answer(200, <<"true">>),
   Answer(200, <<"5">>),
   Answer(200, <<"\"s\"">>),
   Answer(200, <<"[\"a\"]">>),
   Answer(502, <<"<html>">>)}

\* answers to the requests of a Database handle
DbAnswers ==
  {Answer(200, <<"{\"ok\":true}">>),
   Answer(404, <<"{\"error\":", "\"not_found\"}">>),
   Answer(409, <<"{\"error\":\"conflict\"}">>),
   Answer(200, <<JSONStringify(ViewResult)>>),
   Answer(200, <<"{\"purged\":{\"d1\":[\"1-a\"]}}">>),
   Answer(502, <<"<html>">>)}

\* answers to GET /_all_dbs
ListAnswers ==
  {Answer(200, <<JSONStringify(Arr(q))>>) : q \in SeqsUpTo(NameSet, MaxNames)}
  \cup {Answer(200, <<"[\"a\",", "\"_users\",\"a\"]">>),
        Answer(401, <<"{\"error\":\"conflict\"}">>),
        Answer(200, <<"{\"ok\":true}">>)}

\* ------------------------------------------------------------ transport events
\* the response arrives: _request(callback, response) sets content = ''
Response(i, answers) ==
  \E a \in answers :
    /\ reqs[i].phase = "sent"
    /\ reqs' = [reqs EXCEPT ![i].phase = "responding", ![i].status = a.status,
                            ![i].chunks = a.chunks, ![i].rest = a.chunks,
                            ![i].content = ""]
    /\ UNCHANGED conn

\* a data handler that adds the chunk to one buffer shared by the responses
\* being read
DataShared(i) ==
  /\ reqs[i].phase = "responding"
  /\ reqs[i].rest # <<>>
  /\ reqs' = [j \in DOMAIN reqs |->
               IF j = i
               THEN [reqs[j] EXCEPT !.content = @ \o Head(reqs[i].rest),
                                    !.rest = Tail(@)]
               ELSE IF reqs[j].phase = "responding"
               THEN [reqs[j] EXCEPT !.content = @ \o Head(reqs[i].rest)]
               ELSE reqs[j]]
  /\ UNCHANGED conn

\* response.on('data'): content += chunk
Data(i) ==
  /\ reqs[i].phase = "responding"
  /\ reqs[i].rest # <<>>
  /\ reqs' = [reqs EXCEPT ![i].content = @ \o Head(reqs[i].rest),
                          ![i].rest = Tail(@)]
  /\ UNCHANGED conn

\* response.on('end')
End(i) ==
  /\ reqs[i].phase = "responding"
  /\ reqs[i].rest = <<>>
  /\ LET r == OnEnd(reqs[i].properties.callback, reqs[i].content)
     IN reqs' = [reqs EXCEPT ![i].phase = "ended", ![i].log = r.log,
                             ![i].uncaught = r.uncaught]
  /\ UNCHANGED conn

\* request.on('error'): this._responseHandler(properties.callback, error, null),
\* a call of a method Connection.prototype does not have
OnError(c, error) ==
  IF "_responseHandler" \in Prototype
  THEN Catch(c, error, <<>>)
  ELSE [log |-> <<>>, uncaught |-> TypeError]

\* what the transport emits: a refused connection or a failed lookup before
\* any response, a socket failure while the response is read
TransportErrors(phase) ==
  CASE phase = "sent" -> {Err("ECONNREFUSED"), Err("ENOTFOUND")}
    [] phase = "responding" -> {Err("ECONNRESET")}
    [] OTHER -> {}

TransportError(i) ==
  \E error \in TransportErrors(reqs[i].phase) :
    /\ LET r == OnError(reqs[i].properties.callback, error)
       IN reqs' = [reqs EXCEPT ![i].phase = "failed",
                               ![i].log = r.log,
                               ![i].uncaught = r.uncaught,
                               ![i].failure = error]
    /\ UNCHANGED conn

\* ------------------------------------------------------------ Connection
\* listDatabases(callback, noCouchRelated)
listDatabasesRequest(args) ==
  Properties(Str("GET"), Str("_all_dbs"), Undefined,
             Closure("listDatabases", args[1], args[2]))

\* ------------------------------------------------------------ Database
\* '?' + querystring.stringify(v) when v is an object, '' otherwise
QueryOf(v) == IF TypeOf(v) = "object" THEN "?" \o QueryString(v) ELSE ""

\* allDocuments(paramsOrCallback, callback)
allDocumentsRequest(args) ==
  LET params == QueryOf(args[1])
      callback == Or(args[2], args[1])
  IN Properties(Str("GET"), Str(DbName \o "/_all_docs" \o params), Undefined,
                Closure("allDocuments", callback, Undefined))

\* cleanup(callback)
cleanupRequest(args) ==
  Properties(Str("POST"), Str(DbName \o "/_view_cleanup"), Undefined,
             Closure("cleanup", args[1], Undefined))

\* compact(designOrCallback, callback)
compactRequest(args) ==
  LET design == IF Truthy(args[2]) THEN args[1] ELSE Undefined
      callback == Or(args[2], args[1])
  IN Properties(Str("POST"),
                Str(DbName \o "/_compact"
                    \o (IF Truthy(design) THEN "/" \o StringOf(design) ELSE "")),
                Undefined, Closure("compact", callback, Undefined))

\* create(callback)
createRequest(args) ==
  Properties(Str("PUT"), Str(DbName), Undefined,
             Closure("create", args[1], Undefined))

\* destroy(callback)
destroyRequest(args) ==
  Properties(Str("DELETE"), Str(DbName), Undefined,
             Closure("destroy", args[1], Undefined))

\* ensureFullCommit(callback)
ensureFullCommitRequest(args) ==
  Properties(Str("POST"), Str(DbName \o "/_ensure_full_commit"), Undefined,
             Closure("ensureFullCommit", args[1], Undefined))

\* exists(callback)
existsRequest(args) ==
  Properties(Str("GET"), Str(DbName), Undefined,
             Closure("exists", args[1], Undefined))

\* info(callback)
infoRequest(args) ==
  Properties(Str("GET"), Str(DbName), Undefined,
             Closure("info", args[1], Undefined))

\* list(design, list, viewOrOtherDesign, viewOrParamsOrCallback,
\*      paramsOrCallback, callback)
listRequest(args) ==
  LET params == IF TypeOf(args[4]) = "object" THEN QueryOf(args[4])
                ELSE QueryOf(args[5])
      view == IF TypeOf(args[4]) = "string" THEN args[4] ELSE args[3]
      otherDesign == IF TypeOf(args[4]) = "string"
                     THEN "/" \o StringOf(args[3]) ELSE ""
      path == DbName \o "/_design/" \o StringOf(args[1]) \o "/_list/"
              \o StringOf(args[2]) \o otherDesign \o "/" \o StringOf(view)
              \o params
      callback == Or(args[6], Or(args[5], args[4]))
  IN Properties(Str("GET"), Str(path), Undefined,
                Closure("list", callback, Undefined))

\* purge(documents, callback)
purgeRequest(args) ==
  Properties(Str("POST"), Str(DbName \o "/_purge"), args[1],
             Closure("purge", args[2], Undefined))

\* revisionLimit(limitOrCallback, callback)
revisionLimitRequest(args) ==
  LET limit == IF Truthy(args[2]) THEN args[1] ELSE Null
      callback == Or(args[2], args[1])
  IN Properties(Str(IF limit # Null THEN "PUT" ELSE "GET"),
                Str(DbName \o "/_revs_limit"),
                IF limit # Null THEN Str(StringOf(limit)) ELSE Undefined,
                Closure("revisionLimit", callback, limit))

\* show with the continuation taken from the first optional argument that is set
showRequestFirstSet(args) ==
  LET docId == IF TypeOf(args[3]) = "string"
               THEN "/" \o StringOf(args[3]) ELSE ""
      callback == Or(args[3], Or(args[4], args[5]))
      query == IF TypeOf(args[3]) = "object" THEN QueryOf(args[3])
               ELSE QueryOf(args[4])
  IN Properties(Str("GET"),
                Str(DbName \o "/_design/" \o StringOf(args[1]) \o "/_show/"
                    \o StringOf(args[2]) \o docId \o query),
                Undefined, Closure("show", callback, Undefined))

\* show(design, show, docIdOrQueryOrCallback, queryOrCallback, callback)
showRequest(args) ==
  LET docId == IF TypeOf(args[3]) = "string"
               THEN "/" \o StringOf(args[3]) ELSE ""
      callback == Or(args[5], Or(args[4], args[3]))
      query == IF TypeOf(args[3]) = "object" THEN QueryOf(args[3])
               ELSE QueryOf(args[4])
  IN Properties(Str("GET"),
                Str(DbName \o "/_design/" \o StringOf(args[1]) \o "/_show/"
                    \o StringOf(args[2]) \o docId \o query),
                Undefined, Closure("show", callback, Undefined))

\* temporaryView(map, reduceOrParamsOrCallback, paramsOrCallback, callback)
temporaryViewRequest(args) ==
  LET reduce == IF TypeOf(args[2]) = "string" THEN args[2] ELSE Null
      params == QueryString(IF TypeOf(args[2]) = "object" THEN args[2]
                            ELSE args[3])
      callback == Or(args[4], Or(args[3], args[2]))
      body == Obj(<<Prop("map", args[1])>>
                  \o (IF reduce # Null THEN <<Prop("reduce", reduce)>> ELSE <<>>))
  IN Properties(Str("POST"),
                Str(DbName \o "/_temp_view"
                    \o (IF params # "" THEN "?" \o params ELSE "")),
                body, Closure("temporaryView", callback, Undefined))

\* view(design, view, paramsOrCallback, callback) never reaches
\* this._connection.request: `var paramsOrCallback[key] = ...` is not a
\* statement of the language (a SyntaxError), and the file being in strict mode
\* the assignment to the undeclared `path` would throw a ReferenceError
viewThrows(args) == SyntaxError

\* the record of an API invocation that threw before it issued a request
threw(api, args, error) ==
  [api |-> api, args |-> args,
   properties |-> Properties(Undefined, Undefined, Undefined,
                             Closure("none", Undefined, Undefined)),
   options |-> [host |-> Undefined, port |-> Undefined, method |-> "",
                path |-> "", auth |-> "", headers |-> Undefined],
   stream |-> <<>>,
   phase |-> "threw", status |-> 0, chunks |-> <<>>, rest |-> <<>>,
   content |-> "",
   failure |-> NoThrow, log |-> <<>>, uncaught |-> error]

\* ------------------------------------------------------------ callers
MethodStrings ==
  {"GET", "get", "PUT", "Post", "DELETE", "head", "COPY",
   "PATCH", "OUTPUT", "GETX", ""}
Methods == {Str(m) : m \in MethodStrings} \cup {Undefined, Num("5")}
Bodies ==
  {Obj(<<Prop("ok", True)>>), Null, Str("5")}

\* the descriptions callers hand to Connection.request
Descriptions ==
  {Properties(m, Undefined, Undefined, Closure("callback", Fn("cb"), Undefined)) :
     m \in Methods}
  \cup {Properties(Str("POST"), Str("foo/_x"), b,
                   Closure("callback", Fn("cb"), Undefined)) : b \in Bodies}
  \cup {Properties(Str("GET"), Str("foo"), Undefined,
                   Closure("callback", Fn("cbThrows"), Undefined))}

\* connection.request(properties)
Request ==
  \E properties \in Descriptions :
    /\ Len(reqs) < MaxReq
    /\ reqs' = Append(reqs, request("request", <<>>, properties))
    /\ UNCHANGED conn

\* ------------------------------------------------------------ callers of the handles
cb == Fn("cb")
Query == Obj(<<Prop("key", Str("x"))>>)
Design == Str("d")

CallbackOnly == {<<f>> : f \in Callbacks}
ListDatabasesArgs == {<<cb, n>> : n \in {True, False, Undefined, Num("1")}}
AllDocumentsArgs == {<<cb, Undefined>>, <<Query, cb>>}
CompactArgs == {<<cb, Undefined>>, <<Design, cb>>}
PurgeArgs == {<<Val("object", "{\"d1\":[\"1-a\"]}"), cb>>}
RevisionLimitArgs == {<<cb, Undefined>>, <<Num("5"), cb>>}
ShowArgs ==
  {<<Design, Str("s"), cb, Undefined, Undefined>>,
   <<Design, Str("s"), Query, cb, Undefined>>,
   <<Design, Str("s"), Str("doc1"), cb, Undefined>>,
   <<Design, Str("s"), Str("doc1"), Query, cb>>}
ListArgs ==
  {<<Design, Str("l"), Str("v"), cb, Undefined, Undefined>>,
   <<Design, Str("l"), Str("v"), Query, cb, Undefined>>,
   <<Design, Str("l"), Str("o"), Str("v"), cb, Undefined>>,
   <<Design, Str("l"), Str("o"), Str("v"), Query, cb>>}
TemporaryViewArgs ==
  {<<Str("m"), cb, Undefined, Undefined>>,
   <<Str("m"), Query, cb, Undefined>>,
   <<Str("m"), Str("r"), cb, Undefined>>,
   <<Str("m"), Str("r"), Query, cb>>}
ViewArgs ==
  {<<Design, Str("v"), cb, Undefined>>,
   <<Design, Str("v"), Query, cb>>}

\* each handle method builds a description and hands it to Connection.request
listDatabases == \E args \in ListDatabasesArgs :
  /\ Len(reqs) < MaxReq
  /\ reqs' = Append(reqs, request("listDatabases", args, listDatabasesRequest(args)))
  /\ UNCHANGED conn
allDocuments == \E args \in AllDocumentsArgs :
  /\ Len(reqs) < MaxReq
  /\ reqs' = Append(reqs, request("allDocuments", args, allDocumentsRequest(args)))
  /\ UNCHANGED conn
cleanup == \E args \in {<<cb>>} :
  /\ Len(reqs) < MaxReq
  /\ reqs' = Append(reqs, request("cleanup", args, cleanupRequest(args)))
  /\ UNCHANGED conn
compact == \E args \in CompactArgs :
  /\ Len(reqs) < MaxReq
  /\ reqs' = Append(reqs, request("compact", args, compactRequest(args)))
  /\ UNCHANGED conn
create == \E args \in {<<cb>>} :
  /\ Len(reqs) < MaxReq
  /\ reqs' = Append(reqs, request("create", args, createRequest(args)))
  /\ UNCHANGED conn
destroy == \E args \in {<<cb>>} :
  /\ Len(reqs) < MaxReq
  /\ reqs' = Append(reqs, request("destroy", args, destroyRequest(args)))
  /\ UNCHANGED conn
ensureFullCommit == \E args \in {<<cb>>} :
  /\ Len(reqs) < MaxReq
  /\ reqs' = Append(reqs, request("ensureFullCommit", args, ensureFullCommitRequest(args)))
  /\ UNCHANGED conn
exists == \E args \in CallbackOnly :
  /\ Len(reqs) < MaxReq
  /\ reqs' = Append(reqs, request("exists", args, existsRequest(args)))
  /\ UNCHANGED conn
info == \E args \in CallbackOnly :
  /\ Len(reqs) < MaxReq
  /\ reqs' = Append(reqs, request("info", args, infoRequest(args)))
  /\ UNCHANGED conn
list == \E args \in ListArgs :
  /\ Len(reqs) < MaxReq
  /\ reqs' = Append(reqs, request("list", args, listRequest(args)))
  /\ UNCHANGED conn
purge == \E args \in PurgeArgs :
  /\ Len(reqs) < MaxReq
  /\ reqs' = Append(reqs, request("purge", args, purgeRequest(args)))
  /\ UNCHANGED conn
revisionLimit == \E args \in RevisionLimitArgs :
  /\ Len(reqs) < MaxReq
  /\ reqs' = Append(reqs, request("revisionLimit", args, revisionLimitRequest(args)))
  /\ UNCHANGED conn
show == \E args \in ShowArgs :
  /\ Len(reqs) < MaxReq
  /\ reqs' = Append(reqs, request("show", args, showRequest(args)))
  /\ UNCHANGED conn
temporaryView == \E args \in TemporaryViewArgs :
  /\ Len(reqs) < MaxReq
  /\ reqs' = Append(reqs, request("temporaryView", args, temporaryViewRequest(args)))
  /\ UNCHANGED conn
view == \E args \in ViewArgs :
  /\ Len(reqs) < MaxReq
  /\ reqs' = Append(reqs, threw("view", args, viewThrows(args)))
  /\ UNCHANGED conn

Init ==
  /\ conn = nodecouch(Str("localtest"), Str("5984"), Str("foo"), Undefined)
  /\ reqs = <<>>

Next ==
  \/ Request
  \/ \E i \in DOMAIN reqs : Response(i, WireAnswers)
  \/ \E i \in DOMAIN reqs : Data(i)
  \/ \E i \in DOMAIN reqs : End(i)
  \/ \E i \in DOMAIN reqs : TransportError(i)

Spec == Init /\ [][Next]_vars

\* the Database handle, over the dispatcher
NextDb ==
  \/ allDocuments
  \/ cleanup
  \/ compact
  \/ create
  \/ destroy
  \/ ensureFullCommit
  \/ exists
  \/ info
  \/ list
  \/ purge
  \/ revisionLimit
  \/ show
  \/ temporaryView
  \/ view
  \/ \E i \in DOMAIN reqs : Response(i, DbAnswers)
  \/ \E i \in DOMAIN reqs : Data(i)
  \/ \E i \in DOMAIN reqs : End(i)
  \/ \E i \in DOMAIN reqs : TransportError(i)

SpecDb == Init /\ [][NextDb]_vars

\* Connection.listDatabases, over the dispatcher
NextList ==
  \/ listDatabases
  \/ \E i \in DOMAIN reqs : Response(i, ListAnswers)
  \/ \E i \in DOMAIN reqs : Data(i)
  \/ \E i \in DOMAIN reqs : End(i)
  \/ \E i \in DOMAIN reqs : TransportError(i)

SpecList == Init /\ [][NextList]_vars

\* ------------------------------------------------------------ requests in flight together
\* the descriptions of requests made side by side on one Connection
ConcurrentDescriptions ==
  {Properties(Str("GET"), Str("foo"), Undefined,
              Closure("callback", f, Undefined)) : f \in Callbacks}

\* answers that come in two chunks
ChunkedAnswers ==
  {Answer(200, <<"{\"ok\":", "true}">>),
   Answer(404, <<"{\"error\":", "\"not_found\"}">>),
   Answer(502, <<"<ht", "ml>">>)}

\* connection.request(properties), while other requests are in flight
RequestConcurrent ==
  \E properties \in ConcurrentDescriptions :
    /\ Len(reqs) < MaxConcurrent
    /\ reqs' = Append(reqs, request("request", <<>>, properties))
    /\ UNCHANGED conn

NextConcurrent ==
  \/ RequestConcurrent
  \/ \E i \in DOMAIN reqs : Response(i, ChunkedAnswers)
  \/ \E i \in DOMAIN reqs : Data(i)
  \/ \E i \in DOMAIN reqs : End(i)
  \/ \E i \in DOMAIN reqs : TransportError(i)

SpecConcurrent == Init /\ [][NextConcurrent]_vars

\* ------------------------------------------------------------ claims
\* the verbs of the API, as characters
Verbs ==
  {<<"G", "E", "T">>, <<"P", "U", "T">>, <<"P", "O", "S", "T">>,
   <<"D", "E", "L", "E", "T", "E">>, <<"H", "E", "A", "D">>,
   <<"C", "O", "P", "Y">>}
\* v has a property called name
HasField(v, name) == \E k \in DOMAIN v.fields : v.fields[k][1] = name
\* the requests that went out
Issued == {i \in DOMAIN reqs : reqs[i].phase # "threw"}

\* C1: the outbound request carries the description's method when that is a
\* string equal, whatever its case, to GET, PUT, POST, DELETE, HEAD or COPY,
\* and GET for every other method value.
C1_MethodPreservedOrGet ==
  \A i \in Issued :
    LET m == reqs[i].properties.method
    IN IF m.k = "string" /\ FoldAll(Chars(m.lit)) \in Verbs
       THEN reqs[i].options.method = m.lit
       ELSE reqs[i].options.method = "GET"

\* C2: a response whose buffered body parses to a value with a truthy error
\* field is handed to the continuation as (parsedBody, null), whatever the
\* status of the response.
C2_DomainErrorFirst ==
  \A i \in DOMAIN reqs :
    (/\ reqs[i].phase = "ended"
     /\ CanParse(reqs[i].content)
     /\ HasField(JSONParse(reqs[i].content), "error")
     /\ Truthy(Get(JSONParse(reqs[i].content), "error")))
    => /\ Len(reqs[i].log) >= 1
       /\ reqs[i].log[1].called
       /\ reqs[i].log[1].callee = reqs[i].properties.callback.cb
       /\ reqs[i].log[1].args = <<JSONParse(reqs[i].content), Null>>

\* C2 happens: a 200 response carrying {"error":"conflict"} was delivered
C2_Witness ==
  \E i \in DOMAIN reqs :
    /\ reqs[i].phase = "ended"
    /\ reqs[i].status = 200
    /\ reqs[i].content = "{\"error\":\"conflict\"}"
    /\ reqs[i].log[1].args = <<Obj(<<Prop("error", Str("conflict"))>>), Null>>

\* C3: a response whose buffered body parses to any JSON value that carries
\* no error field is handed to the continuation as (null, parsedBody).
C3_SuccessSecond ==
  \A i \in DOMAIN reqs :
    (/\ reqs[i].phase = "ended"
     /\ CanParse(reqs[i].content)
     /\ ~HasField(JSONParse(reqs[i].content), "error"))
    => /\ Len(reqs[i].log) >= 1
       /\ reqs[i].log[1].called
       /\ reqs[i].log[1].args = <<Null, JSONParse(reqs[i].content)>>

\* C4: when the transport emits an error for a request, the continuation is
\* called with (transportError, null), once, and nothing is sent again.
C4_TransportErrorDelivered ==
  \A i \in DOMAIN reqs :
    reqs[i].phase = "failed"
    => /\ Len(reqs[i].log) = 1
       /\ reqs[i].log[1].called
       /\ reqs[i].log[1].args = <<reqs[i].failure, Null>>
       /\ Len(reqs[i].stream) <= 2

\* C5: a description with a body has the JSON text of the body written to the
\* outbound request before the request is ended; one without has only the end.
C5_BodyWrittenBeforeEnd ==
  \A i \in Issued :
    reqs[i].stream =
      IF reqs[i].properties.body # Undefined
      THEN <<[op |-> "write", data |-> JSONStringify(reqs[i].properties.body)],
             [op |-> "end", data |-> ""]>>
      ELSE <<[op |-> "end", data |-> ""]>>

\* the methods of a Database handle that take a continuation, exists apart
ForwardingMethods ==
  {"allDocuments", "cleanup", "compact", "create", "destroy",
   "ensureFullCommit", "info", "purge", "revisionLimit", "list", "show",
   "temporaryView", "view"}

\* C6: every Database method but exists hands an (error, null) of the
\* dispatcher on as (error, null, ...): the error unchanged, then null.
C6_ErrorForwardedWithNull ==
  \A i \in DOMAIN reqs :
    reqs[i].api \in ForwardingMethods
    => \A k \in DOMAIN reqs[i].log :
         (reqs[i].log[k].error # Null /\ reqs[i].log[k].response = Null)
         => /\ reqs[i].log[k].called
            /\ reqs[i].log[k].args[1] = reqs[i].log[k].error
            /\ reqs[i].log[k].args[2] = Null

LastCallable(args) ==
  args[CHOOSE k \in DOMAIN args :
         /\ args[k].k = "function"
         /\ \A j \in DOMAIN args : j > k => args[j].k # "function"]
\* the text written to the outbound request
Written(r) == IF Len(r.stream) = 2 THEN r.stream[1].data ELSE ""

CouchRelated(name) == name \in {"_users", "_replicator"}
OwnName(name) == ~CouchRelated(name)

\* C9: listDatabases issues a GET on _all_dbs and hands a list of names on
\* without the names that start with _, in their order, when noCouchRelated is
\* true, and as it is otherwise.
C9_ListFiltered ==
  \A i \in DOMAIN reqs :
    reqs[i].api = "listDatabases"
    => /\ reqs[i].options.method = "GET"
       /\ reqs[i].options.path = "/_all_dbs"
       /\ reqs[i].stream = <<[op |-> "end", data |-> ""]>>
       /\ \A k \in DOMAIN reqs[i].log :
            LET d == reqs[i].log[k]
            IN (d.error = Null /\ d.response.k = "array")
               => /\ d.called
                  /\ d.callee = reqs[i].args[1]
                  /\ d.args =
                       <<Null,
                         IF reqs[i].args[2] = True
                         THEN Arr(SelectSeq(d.response.items, OwnName))
                         ELSE d.response>>

\* C9 happens: two adjacent _ names at the head of the list were dropped
C9_Witness ==
  \E i \in DOMAIN reqs :
    /\ reqs[i].api = "listDatabases"
    /\ reqs[i].args[2] = True
    /\ reqs[i].phase = "ended"
    /\ reqs[i].content = "[\"_users\",\"_users\",\"a\"]"
    /\ reqs[i].log[1].args = <<Null, Arr(<<"a">>)>>

\* C10: view issues a GET on <db>/_design/<design>/_view/<view>, with the
\* query when params is given, and hands {total_rows, offset, rows} on as
\* (null, {total, offset}, rows) and an error as (error, null, null).
C10_ViewShaped ==
  \A i \in DOMAIN reqs :
    reqs[i].api = "view"
    => /\ i \in Issued
       /\ reqs[i].options.method = "GET"
       /\ reqs[i].options.path =
            "/foo/_design/" \o reqs[i].args[1].lit \o "/_view/"
            \o reqs[i].args[2].lit
            \o (IF reqs[i].args[3].k = "object" THEN "?key=%22x%22" ELSE "")
       /\ \A k \in DOMAIN reqs[i].log :
            LET d == reqs[i].log[k]
            IN /\ d.called
               /\ d.args =
                    IF d.error = Null
                    THEN <<Null,
                           Obj(<<Prop("total", Get(d.response, "total_rows")),
                                 Prop("offset", Get(d.response, "offset"))>>),
                           Get(d.response, "rows")>>
                    ELSE <<d.error, Null, Null>>


RECURSIVE Concat(_)
\* the chunks of a response, joined in the order they were sent
Concat(chunks) ==
  IF chunks = <<>> THEN "" ELSE Head(chunks) \o Concat(Tail(chunks))

\* C11: with several requests in flight on one Connection, whatever the order
\* of their data, end and error events, a continuation is not called before
\* the end of its own response, what it is given is the parse of the chunks of
\* its own response joined in order, and the Connection's host, port, username
\* and password stay what the constructor set.
C11_RequestsIsolated ==
  /\ conn = nodecouch(Str("localtest"), Str("5984"), Str("foo"), Undefined)
  /\ \A i \in DOMAIN reqs :
       LET r == reqs[i]
           own == Concat(r.chunks)
       IN /\ r.phase # "ended" => r.log = <<>>
          /\ r.phase = "responding" => r.content \o Concat(r.rest) = own
          /\ r.phase = "ended"
             => /\ r.content = own
                /\ Len(r.log) >= 1
                /\ r.log[1].called
                /\ r.log[1].callee = r.properties.callback.cb
                /\ r.log[1].args =
                     IF ~CanParse(own) THEN <<SyntaxError, Null>>
                     ELSE IF Truthy(Get(JSONParse(own), "error"))
                     THEN <<JSONParse(own), Null>>
                     ELSE <<Null, JSONParse(own)>>

\* C11 happens: the second request has ended and got its own body while the
\* first, made before it, is still half read with a different body
C11_Witness ==
  /\ Len(reqs) = 2
  /\ reqs[1].phase = "responding"
  /\ reqs[1].content = "{\"ok\":"
  /\ reqs[1].rest = <<"true}">>
  /\ reqs[2].phase = "ended"
  /\ reqs[2].content = "{\"error\":\"not_found\"}"
  /\ reqs[2].log[1].args = <<Obj(<<Prop("error", Str("not_found"))>>), Null>>

\* the calls of the caller's continuation made for request r
Calls(r) == Cardinality({k \in DOMAIN r.log : r.log[k].called})

\* C12: the continuation of a dispatched request is called at most once, and
\* exactly once when the response has ended or the transport has reported an
\* error, also when the continuation throws.
C12_ContinuationOnce ==
  \A i \in Issued :
    /\ Calls(reqs[i]) <= 1
    /\ reqs[i].phase \in {"ended", "failed"} => Calls(reqs[i]) = 1
    /\ reqs[i].phase \in {"sent", "responding"} => Calls(reqs[i]) = 0

====
